---- MODULE Spec2Model ----
(***************************************************************************)
(* Model of frontend/lib/api.ts: the token/user store kept in localStorage, *)
(* the request executor apiRequest and the endpoint functions built on it.  *)
(*                                                                         *)
(* JavaScript strings are modelled as sequences of atoms (the empty string  *)
(* is the empty sequence), JavaScript values as tagged records.             *)
(***************************************************************************)
EXTENDS Naturals, Sequences, FiniteSets, TLC

VARIABLES hasWindow, localStorage, pending, last

vars == <<hasWindow, localStorage, pending, last>>

\* Total number of endpoint calls issued in one behaviour.
MaxCalls == 2

CallIds == 1..MaxCalls

(***************************************************************************)
(* JavaScript values.                                                       *)
(***************************************************************************)
Undefined == [t |-> "undefined"]
Null == [t |-> "null"]
JsStr(s) == [t |-> "string", s |-> s]

\* An optional entry of the storage: absent, or holding one string.
None == <<>>
Some(s) == <<s>>

\* JavaScript truthiness, as used by `if (x)`, `!x` and `a || b`.
Truthy(v) ==
  CASE v.t = "undefined" -> FALSE
    [] v.t = "null" -> FALSE
    [] v.t = "string" -> v.s # <<>>
    [] OTHER -> TRUE

\* a || b
Or(a, b) == IF Truthy(a) THEN a ELSE b

\* Does reading a property of v throw a TypeError?
PropThrows(v) == v.t \in {"undefined", "null"}

\* v.k for a value whose properties can be read.
Prop(v, k) == IF v.t = "object" /\ k \in DOMAIN v THEN v[k] ELSE Undefined

\* String(v): the coercion localStorage.setItem and template literals apply.
ToStr(v) ==
  CASE v.t = "undefined" -> <<"undefined">>
    [] v.t = "null" -> <<"null">>
    [] v.t = "string" -> v.s
    [] OTHER -> <<"[object Object]">>

(***************************************************************************)
(* The values the model draws from.                                         *)
(***************************************************************************)
Tokens == {<<>>, <<"t1">>, <<"t2">>}

UserObj(id, name) == [t |-> "object", id |-> JsStr(id), username |-> JsStr(name)]

Users == {UserObj(<<"1">>, <<"alice">>), UserObj(<<"2">>, <<"bob">>)}

TokenObj(tok, user) == [t |-> "object", access_token |-> JsStr(tok), user |-> user]

EmptyObj == [t |-> "object"]

ErrObj(detail) == [t |-> "object", detail |-> JsStr(detail)]

Details == {<<>>, <<"Incorrect username or password">>, <<"Not found">>}

(***************************************************************************)
(* JSON.stringify and JSON.parse on the values above.                       *)
(***************************************************************************)
Quote(s) == <<"\"">> \o s \o <<"\"">>

\* JSON.stringify(v): a string, or undefined for undefined.
JSONstringify(v) ==
  CASE v.t = "undefined" -> Undefined
    [] v.t = "null" -> JsStr(<<"null">>)
    [] v.t = "string" -> JsStr(Quote(v.s))
    [] v.t = "object" /\ DOMAIN v = {"t", "id", "username"} ->
         JsStr(<<"{">> \o Quote(<<"id">>) \o <<":">> \o Quote(v.id.s) \o <<",">>
               \o Quote(<<"username">>) \o <<":">> \o Quote(v.username.s) \o <<"}">>)
    [] OTHER -> JsStr(<<"{", "}">>)

Punct == {"\"", "{", "}", ":", ","}

\* A quoted string of one atom starting at position i of text s.
IsQuotedAt(s, i) ==
  /\ i + 2 <= Len(s)
  /\ s[i] = "\""
  /\ s[i + 1] \notin Punct
  /\ s[i + 2] = "\""

\* The text JSONstringify gives for a User: {"id":"<id>","username":"<name>"}.
IsUserText(s) ==
  /\ Len(s) = 17
  /\ s[1] = "{"
  /\ IsQuotedAt(s, 2) /\ s[3] = "id"
  /\ s[5] = ":"
  /\ IsQuotedAt(s, 6)
  /\ s[9] = ","
  /\ IsQuotedAt(s, 10) /\ s[11] = "username"
  /\ s[13] = ":"
  /\ IsQuotedAt(s, 14)
  /\ s[17] = "}"

\* JSON.parse(s): [threw |-> TRUE] for a SyntaxError, else the value.
JSONparse(s) ==
  CASE s = <<"null">> -> [threw |-> FALSE, val |-> Null]
    [] s = <<"{", "}">> -> [threw |-> FALSE, val |-> EmptyObj]
    [] Len(s) = 3 /\ IsQuotedAt(s, 1) ->
         [threw |-> FALSE, val |-> JsStr(<<s[2]>>)]
    [] s = <<"\"", "\"">> -> [threw |-> FALSE, val |-> JsStr(<<>>)]
    [] IsUserText(s) ->
         [threw |-> FALSE, val |-> UserObj(<<s[7]>>, <<s[15]>>)]
    [] OTHER -> [threw |-> TRUE, val |-> Undefined]

(***************************************************************************)
(* localStorage.  The storage record holds the two entries the client uses  *)
(* and, for each, which call wrote it last (0: not written by a login).     *)
(* Without a window the global localStorage does not exist and touching it  *)
(* throws a ReferenceError.                                                 *)
(***************************************************************************)
ByField(key) == IF key = "access_token" THEN "tokenBy" ELSE "userBy"

Ret(v, st) == [threw |-> FALSE, val |-> v, st |-> st]
Threw(st) == [threw |-> TRUE, val |-> Undefined, st |-> st]

localStorage_getItem(win, st, key) ==
  IF ~win THEN Threw(st)
  ELSE Ret(IF st[key] = None THEN Null ELSE JsStr(st[key][1]), st)

localStorage_setItem(win, st, key, v, by) ==
  IF ~win THEN Threw(st)
  ELSE Ret(Undefined, [st EXCEPT ![key] = Some(ToStr(v)), ![ByField(key)] = by])

localStorage_removeItem(win, st, key, by) ==
  IF ~win THEN Threw(st)
  ELSE Ret(Undefined, [st EXCEPT ![key] = None, ![ByField(key)] = by])

(***************************************************************************)
(* Token management (api.ts lines 18-52).                                   *)
(***************************************************************************)
getToken(win, st) ==
  IF ~win THEN Ret(Null, st)
  ELSE localStorage_getItem(win, st, "access_token")

\* setToken without the check for a window.
setToken_noGuard(win, st, token, by) ==
  localStorage_setItem(win, st, "access_token", token, by)

setToken(win, st, token, by) ==
  IF ~win THEN Ret(Undefined, st)
  ELSE localStorage_setItem(win, st, "access_token", token, by)

removeToken(win, st) ==
  IF ~win THEN Ret(Undefined, st)
  ELSE localStorage_removeItem(win, st, "access_token", 0)

\* getUser without the try/catch around JSON.parse.
getUser_noCatch(win, st) ==
  IF ~win THEN Ret(Null, st)
  ELSE LET userStr == localStorage_getItem(win, st, "user")
       IN IF userStr.threw THEN userStr
          ELSE IF ~Truthy(userStr.val) THEN Ret(Null, st)
          ELSE LET parsed == JSONparse(userStr.val.s)
               IN IF parsed.threw THEN Threw(st) ELSE Ret(parsed.val, st)

getUser(win, st) ==
  IF ~win THEN Ret(Null, st)
  ELSE LET userStr == localStorage_getItem(win, st, "user")
       IN IF userStr.threw THEN userStr
          ELSE IF ~Truthy(userStr.val) THEN Ret(Null, st)
          ELSE LET parsed == JSONparse(userStr.val.s)
               IN IF parsed.threw THEN Ret(Null, st) ELSE Ret(parsed.val, st)

\* setUser storing the user without JSON.stringify.
setUser_noStringify(win, st, user, by) ==
  IF ~win THEN Ret(Undefined, st)
  ELSE localStorage_setItem(win, st, "user", user, by)

setUser(win, st, user, by) ==
  IF ~win THEN Ret(Undefined, st)
  ELSE localStorage_setItem(win, st, "user", JSONstringify(user), by)

removeUser(win, st) ==
  IF ~win THEN Ret(Undefined, st)
  ELSE localStorage_removeItem(win, st, "user", 0)

(***************************************************************************)
(* The request executor apiRequest (api.ts lines 55-79), in its two halves: *)
(* what runs before the await of fetch, and what runs once fetch settles.   *)
(***************************************************************************)
API_BASE_URL == <<"http://localhost:8000">>

\* `Bearer ${token}`
Bearer(token) == <<"Bearer ">> \o token

\* apiRequest sending the token without the Bearer scheme.
apiRequest_send_rawToken(win, st, endpoint, options) ==
  LET token == getToken(win, st).val
      given == IF "headers" \in DOMAIN options THEN options.headers ELSE <<>>
      headers ==
        IF Truthy(token)
        THEN [h \in DOMAIN given \cup {"Authorization"} |->
                IF h = "Authorization" THEN token.s ELSE given[h]]
        ELSE given
  IN [url |-> API_BASE_URL \o endpoint,
      method |-> IF "method" \in DOMAIN options THEN options.method ELSE "GET",
      headers |-> headers,
      body |-> IF "body" \in DOMAIN options THEN options.body ELSE <<>>]

\* Lines 59-71: the request handed to fetch.
apiRequest_send(win, st, endpoint, options) ==
  LET token == getToken(win, st).val
      given == IF "headers" \in DOMAIN options THEN options.headers ELSE <<>>
      headers ==
        IF Truthy(token)
        THEN [h \in DOMAIN given \cup {"Authorization"} |->
                IF h = "Authorization" THEN Bearer(token.s) ELSE given[h]]
        ELSE given
  IN [url |-> API_BASE_URL \o endpoint,
      method |-> IF "method" \in DOMAIN options THEN options.method ELSE "GET",
      headers |-> headers,
      body |-> IF "body" \in DOMAIN options THEN options.body ELSE <<>>]

\* What fetch settles with: a rejection, or a response with a status and a body
\* that response.json() either parses to a value or rejects.
NetworkFailure == [responded |-> FALSE]
Response(status, body) == [responded |-> TRUE, status |-> status, body |-> body]
NotJson == [json |-> FALSE]
Json(v) == [json |-> TRUE, v |-> v]

\* response.ok
ResponseOk(status) == status >= 200 /\ status <= 299

Resolved(v) == [ok |-> TRUE, v |-> v]
Rejected(name, message) == [ok |-> FALSE, name |-> name, message |-> message]

\* What touching localStorage without a window throws.
ReferenceError == Rejected("ReferenceError", <<"localStorage is not defined">>)

\* apiRequest ignoring the detail of the error body.
apiRequest_settle_noDetail(resp) ==
  IF ~resp.responded THEN Rejected("TypeError", <<"Failed to fetch">>)
  ELSE IF ~ResponseOk(resp.status)
  THEN Rejected("Error", <<"HTTP error! status: ", ToString(resp.status)>>)
  ELSE IF ~resp.body.json
  THEN Rejected("SyntaxError", <<"Unexpected token">>)
  ELSE Resolved(resp.body.v)

\* apiRequest whose catch of response.json() gives an empty object.
apiRequest_settle_emptyCatch(resp) ==
  IF ~resp.responded THEN Rejected("TypeError", <<"Failed to fetch">>)
  ELSE IF ~ResponseOk(resp.status)
  THEN LET error == IF resp.body.json THEN resp.body.v ELSE EmptyObj
       IN IF PropThrows(error)
          THEN Rejected("TypeError", <<"Cannot read properties of null">>)
          ELSE Rejected("Error",
                 ToStr(Or(Prop(error, "detail"),
                          JsStr(<<"HTTP error! status: ", ToString(resp.status)>>))))
  ELSE IF ~resp.body.json
  THEN Rejected("SyntaxError", <<"Unexpected token">>)
  ELSE Resolved(resp.body.v)

\* apiRequest throwing the parsed error body itself instead of an Error.
apiRequest_settle_throwsBody(resp) ==
  IF ~resp.responded THEN Rejected("TypeError", <<"Failed to fetch">>)
  ELSE IF ~ResponseOk(resp.status)
  THEN LET error == IF resp.body.json THEN resp.body.v
                    ELSE ErrObj(<<"An error occurred">>)
       IN IF PropThrows(error)
          THEN Rejected("TypeError", <<"Cannot read properties of null">>)
          ELSE Rejected("Object", ToStr(Prop(error, "detail")))
  ELSE IF ~resp.body.json
  THEN Rejected("SyntaxError", <<"Unexpected token">>)
  ELSE Resolved(resp.body.v)

\* Lines 73-78: the outcome of apiRequest once fetch has settled.
apiRequest_settle(resp) ==
  IF ~resp.responded THEN Rejected("TypeError", <<"Failed to fetch">>)
  ELSE IF ~ResponseOk(resp.status)
  THEN LET error == IF resp.body.json THEN resp.body.v
                    ELSE ErrObj(<<"An error occurred">>)
       IN IF PropThrows(error)
          THEN Rejected("TypeError", <<"Cannot read properties of null">>)
          ELSE Rejected("Error",
                 ToStr(Or(Prop(error, "detail"),
                          JsStr(<<"HTTP error! status: ", ToString(resp.status)>>))))
  ELSE IF ~resp.body.json
  THEN Rejected("SyntaxError", <<"Unexpected token">>)
  ELSE Resolved(resp.body.v)

(***************************************************************************)
(* Request bodies.                                                          *)
(***************************************************************************)
\* URLSearchParams / FormData: the entries in the order they were appended.
append(form, name, value) == Append(form, <<name, value>>)

RECURSIVE URLSearchParams_toString(_)
URLSearchParams_toString(form) ==
  IF form = <<>> THEN <<>>
  ELSE LET rest == URLSearchParams_toString(Tail(form))
       IN <<form[1][1], "=">> \o form[1][2]
          \o (IF rest = <<>> THEN <<>> ELSE <<"&">> \o rest)

FormUrlEncoded == [x \in {"Content-Type"} |-> <<"application/x-www-form-urlencoded">>]

(***************************************************************************)
(* The endpoint functions (api.ts lines 82-182): the endpoint and options   *)
(* each passes to apiRequest.                                               *)
(***************************************************************************)
register(data) ==
  LET formData == append(append(append(<<>>, "username", data.username),
                                "email", data.email),
                         "password", data.password)
  IN [endpoint |-> <<"/auth/register">>,
      options |-> [method |-> "POST", headers |-> FormUrlEncoded,
                   body |-> URLSearchParams_toString(formData)]]

\* Lines 98-109 of login.
login(data) ==
  LET formData == append(append(append(<<>>, "username", data.username),
                                "password", data.password),
                         "grant_type", <<"password">>)
  IN [endpoint |-> <<"/auth/login">>,
      options |-> [method |-> "POST", headers |-> FormUrlEncoded,
                   body |-> URLSearchParams_toString(formData)]]

\* login with the failure branch of a client that signs out on a failed login.
login_then_clearsOnFailure(win, st, outcome, id) ==
  IF ~outcome.ok THEN [outcome |-> outcome, st |-> removeToken(win, st).st]
  ELSE IF PropThrows(outcome.v)
  THEN [outcome |-> Rejected("TypeError", <<"Cannot read properties of null">>),
        st |-> st]
  ELSE [outcome |-> Resolved(outcome.v),
        st |-> setUser(win, setToken(win, st, Prop(outcome.v, "access_token"), id).st,
                       Prop(outcome.v, "user"), id).st]

\* login without its call of setUser.
login_then_tokenOnly(win, st, outcome, id) ==
  IF ~outcome.ok THEN [outcome |-> outcome, st |-> st]
  ELSE IF PropThrows(outcome.v)
  THEN [outcome |-> Rejected("TypeError", <<"Cannot read properties of null">>),
        st |-> st]
  ELSE [outcome |-> Resolved(outcome.v),
        st |-> setToken(win, st, Prop(outcome.v, "access_token"), id).st]

\* Lines 111-115 of login: what runs once apiRequest has settled.
login_then(win, st, outcome, id) ==
  IF ~outcome.ok THEN [outcome |-> outcome, st |-> st]
  ELSE LET token == outcome.v
       IN IF PropThrows(token)
          THEN [outcome |-> Rejected("TypeError", <<"Cannot read properties of null">>),
                st |-> st]
          ELSE LET r1 == setToken(win, st, Prop(token, "access_token"), id)
                   r2 == setUser(win, r1.st, Prop(token, "user"), id)
               IN IF r1.threw
                  THEN [outcome |-> ReferenceError, st |-> r1.st]
                  ELSE IF r2.threw
                  THEN [outcome |-> ReferenceError, st |-> r2.st]
                  ELSE [outcome |-> Resolved(token), st |-> r2.st]

getCurrentUser == [endpoint |-> <<"/auth/me">>, options |-> <<>>]

listVideos == [endpoint |-> <<"/videos">>, options |-> <<>>]

getVideo(videoId) == [endpoint |-> <<"/videos/">> \o videoId, options |-> <<>>]

getVideoStream(videoId) ==
  [endpoint |-> <<"/videos/">> \o videoId \o <<"/stream">>, options |-> <<>>]

\* uploadVideo appending visibility only when it is given, like recipe.
uploadVideo_noDefault(data) ==
  LET f1 == append(append(<<>>, "title", data.title), "file", data.file)
      f2 == IF Truthy(data.recipe) THEN append(f1, "recipe", ToStr(data.recipe)) ELSE f1
      f3 == IF Truthy(data.visibility)
            THEN append(f2, "visibility", ToStr(data.visibility)) ELSE f2
  IN [endpoint |-> <<"/videos">>, options |-> [method |-> "POST", body |-> f3]]

uploadVideo(data) ==
  LET f1 == append(append(<<>>, "title", data.title), "file", data.file)
      f2 == IF Truthy(data.recipe) THEN append(f1, "recipe", ToStr(data.recipe)) ELSE f1
      f3 == append(f2, "visibility", ToStr(Or(data.visibility, JsStr(<<"public">>))))
  IN [endpoint |-> <<"/videos">>, options |-> [method |-> "POST", body |-> f3]]

getUserProfile(userId) == [endpoint |-> <<"/users/">> \o userId, options |-> <<>>]

getUserVideos(userId) ==
  [endpoint |-> <<"/users/">> \o userId \o <<"/videos">>, options |-> <<>>]

followUser(userId) ==
  [endpoint |-> <<"/users/">> \o userId \o <<"/follow">>,
   options |-> [method |-> "POST"]]

unfollowUser(userId) ==
  [endpoint |-> <<"/users/">> \o userId \o <<"/follow">>,
   options |-> [method |-> "DELETE"]]

getFollowers(userId) ==
  [endpoint |-> <<"/users/">> \o userId \o <<"/followers">>, options |-> <<>>]

getFollowing(userId) ==
  [endpoint |-> <<"/users/">> \o userId \o <<"/following">>, options |-> <<>>]

getFeed == [endpoint |-> <<"/feed">>, options |-> <<>>]

(***************************************************************************)
(* Inputs.                                                                  *)
(***************************************************************************)
RegisterInputs ==
  {[username |-> <<"alice">>, email |-> <<"a@x.io">>, password |-> <<"pw">>]}

LoginInputs == {[username |-> <<"alice">>, password |-> <<"pw">>]}

Ids == {<<"7">>}

UploadInputs ==
  [title : {<<"Soup">>}, file : {<<"blob">>},
   recipe : {Undefined, JsStr(<<>>), JsStr(<<"boil">>)},
   visibility : {Undefined, JsStr(<<>>), JsStr(<<"private">>)}]

Statuses == {200, 401, 500}

ErrorBodies == {NotJson, Json(Null), Json(EmptyObj)} \cup {Json(ErrObj(d)) : d \in Details}

LoginBodies ==
  ErrorBodies \cup {Json(TokenObj(tok, u)) : tok \in Tokens, u \in Users \cup {Null}}

Responses(bodies) ==
  {NetworkFailure} \cup {Response(status, body) : status \in Statuses, body \in bodies}

\* Texts another script of the page, or an earlier release, may have left under "user".
ForeignUserTexts == {<<>>, <<"{", "\"", "id", "\"">>, <<"null">>}

EmptyStorage == [access_token |-> None, user |-> None, tokenBy |-> 0, userBy |-> 0]

\* What a browser profile may hold when the page loads.
PersistedStorages ==
  {EmptyStorage,
   [EmptyStorage EXCEPT !.access_token = Some(<<"t1">>),
                        !.user = Some(JSONstringify(UserObj(<<"1">>, <<"alice">>)).s)]}

(***************************************************************************)
(* The state machine.  pending[id] is what awaits the response of call id:  *)
(* "login" (lines 111-115 run next), "plain" (the caller gets apiRequest's  *)
(* outcome as it is), "none" before the call and "done" after.  last is the *)
(* operation that led to the current state, with what it was given and what *)
(* it gave.                                                                 *)
(***************************************************************************)
Init ==
  /\ hasWindow \in BOOLEAN
  /\ localStorage \in (IF hasWindow THEN PersistedStorages ELSE {EmptyStorage})
  /\ pending = [id \in CallIds |-> "none"]
  /\ last = [op |-> "init"]

NextId == Cardinality({id \in CallIds : pending[id] # "none"}) + 1

\* A call of an endpoint function up to its await of fetch.
Issue(fn, arg, call) ==
  /\ NextId \in CallIds
  /\ pending' = [pending EXCEPT ![NextId] = IF fn = "login" THEN "login" ELSE "plain"]
  /\ last' = [op |-> "call", id |-> NextId, fn |-> fn, arg |-> arg,
              request |-> apiRequest_send(hasWindow, localStorage,
                                          call.endpoint, call.options)]
  /\ UNCHANGED <<hasWindow, localStorage>>

Register == \E data \in RegisterInputs : Issue("register", data, register(data))
Login == \E data \in LoginInputs : Issue("login", data, login(data))
GetCurrentUser == Issue("getCurrentUser", <<>>, getCurrentUser)
ListVideos == Issue("listVideos", <<>>, listVideos)
GetVideo == \E videoId \in Ids : Issue("getVideo", videoId, getVideo(videoId))
GetVideoStream ==
  \E videoId \in Ids : Issue("getVideoStream", videoId, getVideoStream(videoId))
UploadVideo == \E data \in UploadInputs : Issue("uploadVideo", data, uploadVideo(data))
GetUserProfile == \E userId \in Ids : Issue("getUserProfile", userId, getUserProfile(userId))
GetUserVideos == \E userId \in Ids : Issue("getUserVideos", userId, getUserVideos(userId))
FollowUser == \E userId \in Ids : Issue("followUser", userId, followUser(userId))
UnfollowUser == \E userId \in Ids : Issue("unfollowUser", userId, unfollowUser(userId))
GetFollowers == \E userId \in Ids : Issue("getFollowers", userId, getFollowers(userId))
GetFollowing == \E userId \in Ids : Issue("getFollowing", userId, getFollowing(userId))
GetFeed == Issue("getFeed", <<>>, getFeed)

\* fetch settles for a call of an endpoint function other than login.
SettlePlain ==
  \E id \in CallIds, resp \in Responses(ErrorBodies) :
    /\ pending[id] = "plain"
    /\ pending' = [pending EXCEPT ![id] = "done"]
    /\ last' = [op |-> "settle", id |-> id, kind |-> "plain", resp |-> resp,
                outcome |-> apiRequest_settle(resp)]
    /\ UNCHANGED <<hasWindow, localStorage>>

\* fetch settles for a call of login.
SettleLogin ==
  \E id \in CallIds, resp \in Responses(LoginBodies) :
    /\ pending[id] = "login"
    /\ LET r == login_then(hasWindow, localStorage, apiRequest_settle(resp), id)
       IN /\ localStorage' = r.st
          /\ last' = [op |-> "settle", id |-> id, kind |-> "login", resp |-> resp,
                      outcome |-> r.outcome]
    /\ pending' = [pending EXCEPT ![id] = "done"]
    /\ UNCHANGED hasWindow

\* A direct call of one of the exported store functions.
StoreOp(op, arg, r) ==
  /\ localStorage' = r.st
  /\ last' = [op |-> op, arg |-> arg, threw |-> r.threw, val |-> r.val]
  /\ UNCHANGED <<hasWindow, pending>>

GetToken == StoreOp("getToken", Undefined, getToken(hasWindow, localStorage))
SetToken ==
  \E tok \in Tokens :
    StoreOp("setToken", JsStr(tok), setToken(hasWindow, localStorage, JsStr(tok), 0))
RemoveToken == StoreOp("removeToken", Undefined, removeToken(hasWindow, localStorage))
GetUser == StoreOp("getUser", Undefined, getUser(hasWindow, localStorage))
SetUser ==
  \E user \in Users : StoreOp("setUser", user, setUser(hasWindow, localStorage, user, 0))
RemoveUser == StoreOp("removeUser", Undefined, removeUser(hasWindow, localStorage))

\* Something else writes the "user" entry of the browser's storage.
ForeignWrite ==
  \E text \in ForeignUserTexts :
    /\ hasWindow
    /\ localStorage' = [localStorage EXCEPT !.user = Some(text), !.userBy = 0]
    /\ last' = [op |-> "foreign", text |-> text]
    /\ UNCHANGED <<hasWindow, pending>>

Calls ==
  \/ Register \/ Login \/ GetCurrentUser \/ ListVideos \/ GetVideo \/ GetVideoStream
  \/ UploadVideo \/ GetUserProfile \/ GetUserVideos \/ FollowUser \/ UnfollowUser
  \/ GetFollowers \/ GetFollowing \/ GetFeed

Next ==
  \/ Calls
  \/ SettlePlain \/ SettleLogin
  \/ GetToken \/ SetToken \/ RemoveToken \/ GetUser \/ SetUser \/ RemoveUser
  \/ ForeignWrite

Spec == Init /\ [][Next]_vars

\* Endpoint calls only: no direct use of the store functions.
NextCalls == Calls \/ SettlePlain \/ SettleLogin

SpecCalls == Init /\ [][NextCalls]_vars

(***************************************************************************)
(* Properties.                                                              *)
(***************************************************************************)
IsCall == last.op = "call"
IsSettle == last.op = "settle"
HasAuthorization(request) == "Authorization" \in DOMAIN request.headers

\* The settled call got a non-success HTTP status.
IsHttpError == IsSettle /\ last.resp.responded /\ ~ResponseOk(last.resp.status)

\* The response body is JSON with a string-valued detail field.
HasDetail(body) ==
  /\ body.json
  /\ body.v.t = "object"
  /\ "detail" \in DOMAIN body.v
  /\ body.v.detail.t = "string"

\* The message names the numeric status.
MentionsStatus(message, status) ==
  \E i \in DOMAIN message : message[i] = ToString(status)

\* C1 as stated: with storage available, setToken(t) puts t in the store and
\* removeToken empties it, and every request issued carries Authorization:
\* Bearer t for the token t in the store, and no Authorization header when the
\* store holds no token.
C1_Original ==
  hasWindow =>
    /\ last.op = "setToken" => localStorage.access_token = Some(last.arg.s)
    /\ last.op = "removeToken" => localStorage.access_token = None
    /\ IsCall =>
         IF localStorage.access_token = None
         THEN ~HasAuthorization(last.request)
         ELSE /\ HasAuthorization(last.request)
              /\ last.request.headers["Authorization"]
                   = Bearer(localStorage.access_token[1])

\* C1 amended: as above for a non-empty token t; when the store holds no token
\* or the empty string, the request carries no Authorization header.
C1_BearerAttached ==
  hasWindow =>
    /\ last.op = "setToken" => localStorage.access_token = Some(last.arg.s)
    /\ last.op = "removeToken" => localStorage.access_token = None
    /\ IsCall =>
         IF localStorage.access_token \in {None, Some(<<>>)}
         THEN ~HasAuthorization(last.request)
         ELSE /\ HasAuthorization(last.request)
              /\ last.request.headers["Authorization"]
                   = Bearer(localStorage.access_token[1])

C1_Witness ==
  /\ hasWindow
  /\ IsCall
  /\ last.fn = "getFeed"
  /\ localStorage.access_token = Some(<<"t2">>)
  /\ localStorage.tokenBy = 0
  /\ HasAuthorization(last.request)

\* C2 as stated: a non-success status whose JSON body has detail: "X" makes the
\* call fail with the message X, for every string X.
C2_Original ==
  (IsHttpError /\ HasDetail(last.resp.body)) =>
    /\ ~last.outcome.ok
    /\ last.outcome.message = last.resp.body.v.detail.s

\* C2 amended: the same for every non-empty string X.
C2_DetailIsMessage ==
  (IsHttpError /\ HasDetail(last.resp.body) /\ last.resp.body.v.detail.s # <<>>) =>
    /\ ~last.outcome.ok
    /\ last.outcome.message = last.resp.body.v.detail.s

C2_Witness ==
  /\ IsHttpError
  /\ last.kind = "plain"
  /\ last.resp.status = 401
  /\ HasDetail(last.resp.body)
  /\ last.outcome.message = <<"Incorrect username or password">>

\* C3 as stated: a non-success status whose body is not JSON with a detail field
\* makes the call fail with a message that names the numeric status.
C3_Original ==
  (IsHttpError /\ ~HasDetail(last.resp.body)) =>
    /\ ~last.outcome.ok
    /\ MentionsStatus(last.outcome.message, last.resp.status)

\* C3 amended: the call fails in each case; the message names the numeric status
\* when the body is a JSON object without a detail field or with an empty one;
\* when the body is not parseable as JSON the message is the fixed text
\* "An error occurred", which names no status; when the body is JSON null the
\* failure is the TypeError of reading detail of null.
C3_GenericFallback ==
  IsHttpError =>
    /\ ~last.outcome.ok
    /\ (/\ last.resp.body.json
        /\ last.resp.body.v.t = "object"
        /\ (HasDetail(last.resp.body) => last.resp.body.v.detail.s = <<>>))
         => /\ last.outcome.name = "Error"
            /\ last.outcome.message
                 = <<"HTTP error! status: ", ToString(last.resp.status)>>
            /\ MentionsStatus(last.outcome.message, last.resp.status)
    /\ ~last.resp.body.json
         => /\ last.outcome.name = "Error"
            /\ last.outcome.message = <<"An error occurred">>
            /\ ~MentionsStatus(last.outcome.message, last.resp.status)
    /\ (last.resp.body.json /\ last.resp.body.v.t = "null")
         => last.outcome.name = "TypeError"

C3_Witness ==
  /\ IsHttpError
  /\ last.resp.status = 500
  /\ ~last.resp.body.json
  /\ last.outcome.message = <<"An error occurred">>

\* The settled call is a login whose success response is {access_token, user}.
IsLoginSuccess ==
  /\ IsSettle
  /\ last.kind = "login"
  /\ last.resp.responded
  /\ ResponseOk(last.resp.status)
  /\ last.resp.body.json
  /\ last.resp.body.v.t = "object"
  /\ {"access_token", "user"} \subseteq DOMAIN last.resp.body.v

\* C4: with storage available, once login has received {access_token: t, user: u}
\* getToken() gives t and getUser() gives u, whatever was stored before, and
\* login resolves with that Token object.
C4_LoginStores ==
  (hasWindow /\ IsLoginSuccess) =>
    /\ getToken(hasWindow, localStorage).val = last.resp.body.v.access_token
    /\ getUser(hasWindow, localStorage).val = last.resp.body.v.user
    /\ last.outcome = Resolved(last.resp.body.v)

C4_Witness ==
  /\ hasWindow
  /\ IsLoginSuccess
  /\ last.id = 2
  /\ last.resp.body.v = TokenObj(<<"t2">>, UserObj(<<"2">>, <<"bob">>))
  /\ localStorage.access_token = Some(<<"t2">>)
  /\ getUser(hasWindow, localStorage).val = UserObj(<<"2">>, <<"bob">>)

StoreOps == {"getToken", "setToken", "removeToken", "getUser", "setUser", "removeUser"}

\* C5: without persistent storage no store function throws, the setters and
\* removers change nothing, and both getters give null after any sequence of
\* operations, a successful login included.
C5_NoStorageNoOps ==
  ~hasWindow =>
    /\ localStorage = EmptyStorage
    /\ last.op \in StoreOps => ~last.threw
    /\ last.op \in {"getToken", "getUser"} => last.val = Null
    /\ getToken(hasWindow, localStorage) = Ret(Null, localStorage)
    /\ getUser(hasWindow, localStorage) = Ret(Null, localStorage)
    /\ IsLoginSuccess => last.outcome = Resolved(last.resp.body.v)

C5_Witness ==
  /\ ~hasWindow
  /\ IsLoginSuccess
  /\ last.outcome.ok
  /\ getToken(hasWindow, localStorage).val = Null
  /\ getUser(hasWindow, localStorage).val = Null

FailureNames == {"Error", "TypeError", "SyntaxError"}

\* C6 as stated: every failing endpoint call fails with one and the same kind
\* of error, the Error apiRequest throws, whatever made it fail.
C6_Original == (IsSettle /\ ~last.outcome.ok) => last.outcome.name = "Error"

\* C6 amended: every failing endpoint call rejects with an Error instance that
\* carries a message, but not of one kind: a non-success status gives a plain
\* Error (a TypeError when the error body is JSON null), a network failure gives
\* fetch's own TypeError, an unparseable success body gives a SyntaxError, and a
\* login whose success body is null gives a TypeError.
C6_FailureKinds ==
  (IsSettle /\ ~last.outcome.ok) =>
    /\ last.outcome.name \in FailureNames
    /\ last.outcome.message # <<>>
    /\ ~last.resp.responded => last.outcome.name = "TypeError"
    /\ IsHttpError =>
         (last.outcome.name =
            IF last.resp.body.json /\ last.resp.body.v.t = "null"
            THEN "TypeError" ELSE "Error")
    /\ (last.resp.responded /\ ResponseOk(last.resp.status)) =>
         (last.outcome.name = IF last.resp.body.json THEN "TypeError" ELSE "SyntaxError")

C6_Witness ==
  /\ IsSettle
  /\ ~last.outcome.ok
  /\ ~last.resp.responded
  /\ last.outcome.name = "TypeError"

\* The entries of a form with the given name.
Fields(form, name) == {i \in DOMAIN form : form[i][1] = name}

IsUpload == IsCall /\ last.fn = "uploadVideo"

\* C7 as stated: the multipart body of uploadVideo has exactly one visibility
\* field, holding data.visibility when given and "public" when not, a recipe
\* field exactly when a recipe was given, and always title and file.
C7_Original ==
  IsUpload =>
    LET form == last.request.body
        data == last.arg
    IN /\ Cardinality(Fields(form, "visibility")) = 1
       /\ \A i \in Fields(form, "visibility") :
            form[i][2] = IF data.visibility = Undefined THEN <<"public">>
                         ELSE data.visibility.s
       /\ (Fields(form, "recipe") # {}) <=> (data.recipe # Undefined)
       /\ Fields(form, "title") # {}
       /\ Fields(form, "file") # {}

\* C7 amended: the visibility field holds data.visibility when that is a
\* non-empty string and "public" otherwise; the recipe field is present exactly
\* when a non-empty recipe was given.
C7_UploadForm ==
  IsUpload =>
    LET form == last.request.body
        data == last.arg
    IN /\ Cardinality(Fields(form, "visibility")) = 1
       /\ \A i \in Fields(form, "visibility") :
            form[i][2] = IF data.visibility \in {Undefined, JsStr(<<>>)}
                         THEN <<"public">>
                         ELSE data.visibility.s
       /\ (Fields(form, "recipe") # {}) <=> (data.recipe \notin {Undefined, JsStr(<<>>)})
       /\ \A i \in Fields(form, "recipe") : form[i][2] = data.recipe.s
       /\ Cardinality(Fields(form, "title")) = 1
       /\ Cardinality(Fields(form, "file")) = 1

C7_Witness ==
  /\ IsUpload
  /\ last.arg.recipe = Undefined
  /\ last.arg.visibility = Undefined
  /\ Fields(last.request.body, "recipe") = {}
  /\ \E i \in DOMAIN last.request.body :
       last.request.body[i] = <<"visibility", <<"public">> >>

\* The stored "user" entry is absent, empty or not parseable as JSON.
UserEntryUnusable ==
  \/ localStorage.user = None
  \/ localStorage.user = Some(<<>>)
  \/ JSONparse(localStorage.user[1]).threw

\* C8: with storage available getUser never throws; it gives null when the
\* stored entry is absent, empty or not parseable, the user u right after
\* setUser(u), and null right after removeUser.
C8_GetUserTotal ==
  hasWindow =>
    /\ ~getUser(hasWindow, localStorage).threw
    /\ UserEntryUnusable => getUser(hasWindow, localStorage).val = Null
    /\ last.op = "setUser" => getUser(hasWindow, localStorage).val = last.arg
    /\ last.op = "removeUser" => getUser(hasWindow, localStorage).val = Null
    /\ last.op = "getUser" =>
         /\ ~last.threw
         /\ last.val = getUser(hasWindow, localStorage).val

C8_Witness ==
  /\ hasWindow
  /\ last.op = "getUser"
  /\ localStorage.user = Some(<<"{", "\"", "id", "\"">>)
  /\ last.val = Null
  /\ ~last.threw

\* C9: a login that fails leaves the store as it was, and so does every step of
\* every other endpoint function: only a login that succeeds writes the store.
C9_FailedLoginKeepsStore ==
  [][ /\ (last'.op = "settle" /\ ~last'.outcome.ok) => localStorage' = localStorage
      /\ (last'.op = "settle" /\ last'.kind = "plain") => localStorage' = localStorage
      /\ last'.op = "call" => localStorage' = localStorage ]_vars

C9_Witness ==
  /\ hasWindow
  /\ IsSettle
  /\ last.kind = "login"
  /\ ~last.outcome.ok
  /\ last.resp.responded
  /\ ResponseOk(last.resp.status)
  /\ localStorage.access_token = Some(<<"t1">>)
  /\ localStorage.user # None

\* C10: when only endpoint functions run, in any interleaving of calls and
\* responses, a token written by a login is stored with the user written by that
\* same login, the store changes only as a login succeeds, and it then holds the
\* pair of that login's response.
C10_PairFromOneLogin ==
  /\ [](/\ localStorage.tokenBy # 0 => localStorage.userBy = localStorage.tokenBy
        /\ localStorage.userBy # 0 => localStorage.tokenBy = localStorage.userBy
        /\ (hasWindow /\ IsSettle /\ last.kind = "login" /\ last.outcome.ok) =>
             /\ localStorage.tokenBy = last.id
             /\ localStorage.userBy = last.id
             /\ localStorage.access_token
                  = Some(ToStr(Prop(last.outcome.v, "access_token")))
             /\ localStorage.user
                  = Some(ToStr(JSONstringify(Prop(last.outcome.v, "user")))))
  /\ [][localStorage' # localStorage =>
          (last'.op = "settle" /\ last'.kind = "login" /\ last'.outcome.ok)]_vars

C10_Witness ==
  /\ hasWindow
  /\ IsLoginSuccess
  /\ last.id = 1
  /\ pending[2] = "done"
  /\ localStorage.tokenBy = 1
  /\ localStorage.userBy = 1

====
